---- MODULE Spec2Model ----
(***************************************************************************)
(* Progress & Split engine of the tymx backend (station-id variant):       *)
(* event start/stop, ping, undo, reset, disqualify over the Firestore      *)
(* collections events/{id}/athletes, pings and splits.                     *)
(*                                                                         *)
(* One event exists (the state after POST /api/events with a station list  *)
(* of pairwise distinct ids) and three athletes are registered under it in *)
(* the ready / progress 0 state; a fourth athlete id has no document.      *)
(* The field lastUpdatedAt, which no handler reads, is left out.           *)
(*                                                                         *)
(* Spec runs the handlers one after the other, each as one step; SpecConc  *)
(* runs two requests whose store reads and writes interleave, and lets a   *)
(* store call fail.  The variable last is the response of the most recent  *)
(* request; for an accepted ping it also keeps the athlete document and    *)
(* the facts as they were before that ping (a history variable).           *)
(*                                                                         *)
(* SpecOps runs a ping beside an undo, reset or disqualify; SpecAdmin      *)
(* sends the admin requests for the athlete id without a document;         *)
(* SpecEvent starts before POST /api/events and runs create, start, stop;  *)
(* SpecBoard and SpecResults read the leaderboard and the results table.   *)
(* SpecPair runs two athletes one request at a time with leaderboard       *)
(* reads; SpecStop runs pings step by step beside stopEvent.               *)
(*                                                                         *)
(* SpecIndex and SpecIndexAdmin model the checkpoint-index revisions of    *)
(* the ping route (alone, and beside undo, set-progress and reset).        *)
(***************************************************************************)
EXTENDS Integers, Sequences, FiniteSets, Bags, TLC

\* ------------------------------------------------------------------ bounds
NumStations == 3
MaxClock == 2

\* --------------------------------------------------------------- JS values
\* A missing document field (JS undefined) in a numeric or timestamp slot.
Undefined == -1
\* JS null in the numeric slot splitMs / durationMs.
Null == -1
\* A field that an update object does not mention (not in the merge mask).
Keep == -2

IdTable == <<"s0", "s1", "s2", "s3", "s4", "s5">>
\* event.stationList as stored by createEvent: the station ids in order
\* (JS index i is TLA+ index i + 1).
stationList == [i \in 1..NumStations |-> IdTable[i]]
StationIds == {stationList[i] : i \in 1..NumStations}

Registered == {"a1", "a2", "a3"}
AthleteIds == Registered \cup {"ax"}
\* The athlete ids in the order a read of the athletes collection returns
\* the documents (ascending document id).
AthleteOrder == <<"a1", "a2", "a3", "ax">>
\* stationId values of a request body: known ids, an unknown id, a missing one.
StationInputs == StationIds \cup {"zz", ""}

VARIABLES event, athletes, pings, splits, clock, last, reqs

vars == <<event, athletes, pings, splits, clock, last, reqs>>

\* ------------------------------------------------------------- documents
EmptyTimes == [s \in StationIds |-> Undefined]

NoDoc ==
  [exists |-> FALSE, progress |-> Undefined, stationTimes |-> EmptyTimes,
   status |-> "undefined", finishedAt |-> Undefined]

\* The athlete document written at registration (ready, progress 0).
NewAthlete ==
  [exists |-> TRUE, progress |-> 0, stationTimes |-> EmptyTimes,
   status |-> "ready", finishedAt |-> Undefined]

\* Variant: a merge by leaves only, an empty given map changing nothing.
MergeMapLeaves(old, new) ==
  [k \in DOMAIN old |-> IF new[k] # Undefined THEN new[k] ELSE old[k]]

\* Firestore set(..., {merge: true}) on a map field: the merge mask holds the
\* leaf paths of the given map, so keys the given map lacks keep their stored
\* values; an empty given map is itself a leaf and replaces the stored map.
MergeMap(old, new) ==
  IF \A k \in DOMAIN new : new[k] = Undefined
    THEN new
    ELSE [k \in DOMAIN old |-> IF new[k] # Undefined THEN new[k] ELSE old[k]]

\* Firestore set(update, {merge: true}) on an athlete document: creates the
\* document when missing, overwrites the fields the update names, deletes a
\* field given as FieldValue.delete() (Undefined), keeps every other field.
SetMerge(doc, u) ==
  [exists |-> TRUE,
   progress |-> IF u.progress = Keep THEN doc.progress ELSE u.progress,
   stationTimes |-> IF u.writeTimes
                      THEN MergeMap(doc.stationTimes, u.stationTimes)
                      ELSE doc.stationTimes,
   status |-> IF u.status = "keep" THEN doc.status ELSE u.status,
   finishedAt |-> IF u.finishedAt = Keep THEN doc.finishedAt ELSE u.finishedAt]

\* collection.add(doc): a new document with a fresh id (the collection is a bag).
AddDoc(coll, doc) == coll (+) SetToBag({doc})

\* batch.delete of every document of a query snapshot.
DeleteDocs(coll, snap) == [d \in (DOMAIN coll) \ snap |-> coll[d]]

\* Variant: the query without the athleteId filter.
DocsOfEvent(coll, a) == DOMAIN coll

\* where athleteId == a (and stationId == stationId)
DocsOf(coll, a) == {d \in DOMAIN coll : d.athleteId = a}
DocsOfStation(coll, a, stationId) ==
  {d \in DOMAIN coll : d.athleteId = a /\ d.stationId = stationId}

\* ---------------------------------------------------------------- ping
\* stationIndexMap: station id -> index, the last index winning on a repeat.
StationIndexMap(list) ==
  [id \in {list[i] : i \in DOMAIN list} |->
     CHOOSE i \in 0..(Len(list) - 1) :
       list[i + 1] = id /\ \A j \in (i + 1)..(Len(list) - 1) : list[j + 1] # id]

stationIndexMap == StationIndexMap(stationList)

\* athleteData.status || "ready"
PingStatus(data) == IF data.status = "undefined" THEN "ready" ELSE data.status

\* typeof progress === "number" && progress >= 0 ? progress : 0
PingProgress(data) == IF data.progress >= 0 THEN data.progress ELSE 0

\* Variant: the fallback station is taken whatever the progress.
ExpectedStationFallback(list, progress) == list[Len(list)]

\* stationList[progress] || stationList[stationList.length - 1]
ExpectedStation(list, progress) ==
  IF progress < Len(list) THEN list[progress + 1] ELSE list[Len(list)]

\* Variant: the duplicate check placed before the order check.
PingCodeDupFirst(ev, data, stationId) ==
  IF stationId = "" THEN "ValidationError"
  ELSE IF ev.status # "active" THEN "EventNotActive"
  ELSE IF stationId \notin DOMAIN stationIndexMap THEN "UnknownStation"
  ELSE IF ~data.exists THEN "AthleteNotFound"
  ELSE IF PingStatus(data) = "dnf" THEN "AthleteDisqualified"
  ELSE IF data.stationTimes[stationId] # Undefined THEN "DuplicateCompletion"
  ELSE IF stationId # ExpectedStation(stationList, PingProgress(data))
    THEN "OutOfOrderStation"
  ELSE "ok"

\* The handler's checks up to the first write, in order; "ok" when all pass.
PingCode(ev, data, stationId) ==
  IF stationId = "" THEN "ValidationError"
  ELSE IF ev.status # "active" THEN "EventNotActive"
  ELSE IF stationId \notin DOMAIN stationIndexMap THEN "UnknownStation"
  ELSE IF ~data.exists THEN "AthleteNotFound"
  ELSE IF PingStatus(data) = "dnf" THEN "AthleteDisqualified"
  ELSE IF stationId # ExpectedStation(stationList, PingProgress(data))
    THEN "OutOfOrderStation"
  ELSE IF data.stationTimes[stationId] # Undefined THEN "DuplicateCompletion"
  ELSE "ok"

PingDoc(a, stationId, now) ==
  [athleteId |-> a, stationId |-> stationId,
   stationIndex |-> stationIndexMap[stationId], timestamp |-> now]

\* Variant: the time of the first station taken as the previous time.
PreviousTimeOfFirst(data) ==
  IF PingProgress(data) > 0
    THEN data.stationTimes[stationList[1]]
    ELSE Undefined

\* stationTimes[previousId] of the station before the expected one.
PreviousTime(data) ==
  IF PingProgress(data) > 0
    THEN data.stationTimes[stationList[PingProgress(data)]]
    ELSE Undefined

\* Variant: the operands of the subtraction exchanged.
DurationMsReversed(data, now) ==
  IF PreviousTime(data) # Undefined THEN PreviousTime(data) - now ELSE Null

\* durationMs: null unless progress > 0 and the previous time is recorded.
DurationMs(data, now) ==
  IF PreviousTime(data) # Undefined THEN now - PreviousTime(data) ELSE Null

SplitDoc(a, stationId, data, now) ==
  [athleteId |-> a, stationId |-> stationId,
   stationIndex |-> stationIndexMap[stationId],
   startTimestamp |-> PreviousTime(data), endTimestamp |-> now,
   durationMs |-> DurationMs(data, now)]

\* Variant: a strict comparison.
IsFinishedStrict(data) == PingProgress(data) + 1 > Len(stationList)

\* isFinished = nextProgress >= stationList.length
IsFinished(data) == PingProgress(data) + 1 >= Len(stationList)

\* The update object of the ping handler.
PingUpdate(data, stationId, now) ==
  [progress |-> PingProgress(data) + 1,
   writeTimes |-> TRUE,
   stationTimes |-> [data.stationTimes EXCEPT ![stationId] = now],
   status |-> IF IsFinished(data) THEN "finished"
              ELSE IF PingStatus(data) = "ready" THEN "active" ELSE "keep",
   finishedAt |-> IF IsFinished(data) THEN now ELSE Keep]

\* Variant: the ping document is added before the order and duplicate checks.
PingsAfterPingEarly(code, coll, a, stationId, now) ==
  IF code \in {"ok", "OutOfOrderStation", "DuplicateCompletion"}
    THEN AddDoc(coll, PingDoc(a, stationId, now))
    ELSE coll

\* The collections and the athlete document after the handler: a rejected
\* request returns before the first write.
PingsAfterPing(code, coll, a, stationId, now) ==
  IF code = "ok" THEN AddDoc(coll, PingDoc(a, stationId, now)) ELSE coll

SplitsAfterPing(code, coll, a, stationId, data, now) ==
  IF code = "ok" /\ PreviousTime(data) # Undefined
    THEN AddDoc(coll, SplitDoc(a, stationId, data, now))
    ELSE coll

\* stored is the document in the store at the moment of the set, data the
\* document the handler read.
AthleteAfterPing(code, stored, data, stationId, now) ==
  IF code = "ok" THEN SetMerge(stored, PingUpdate(data, stationId, now)) ELSE stored

\* ------------------------------------------------------------ responses
NoPrior == [athlete |-> NoDoc, pings |-> EmptyBag, splits |-> EmptyBag]

BasicResponse(op, a, code) ==
  [op |-> op, athleteId |-> a, stationId |-> "", code |-> code,
   progress |-> Undefined, splitMs |-> Null, finished |-> FALSE,
   expected |-> "", attempted |-> "", repeat |-> FALSE, prior |-> NoPrior,
   rows |-> <<>>]

\* The JSON body of the ping response (op, athleteId, repeat and prior are
\* bookkeeping about the request, not part of the body).
PingResponse(code, a, stationId, data, now) ==
  [BasicResponse("ping", a, code) EXCEPT
     !.stationId = stationId,
     !.progress = IF code = "ok" THEN PingProgress(data) + 1 ELSE Undefined,
     !.splitMs = IF code = "ok" THEN DurationMs(data, now) ELSE Null,
     !.finished = code = "ok" /\ IsFinished(data),
     !.expected = IF code = "OutOfOrderStation"
                    THEN ExpectedStation(stationList, PingProgress(data)) ELSE "",
     !.attempted = IF code = "OutOfOrderStation" THEN stationId ELSE ""]

\* ---------------------------------------------------------------- undo
\* typeof progress === "number" && progress > 0 ? progress : 0
UndoProgress(data) == IF data.progress > 0 THEN data.progress ELSE 0

UndoCode(data) ==
  IF ~data.exists THEN "AthleteNotFound"
  ELSE IF UndoProgress(data) <= 0 THEN "NothingToUndo"
  ELSE "ok"

\* stationList[progress - 1].id
UndoStation(data) == stationList[UndoProgress(data)]

\* The stationTimes object the undo handler writes: a copy of the one it
\* read, with the undone station's key deleted.
UndoStationTimes(data) ==
  [data.stationTimes EXCEPT ![UndoStation(data)] = Undefined]

\* The update object of the undo handler; status and finishedAt are in it
\* only when the status read was finished.
UndoUpdate(data) ==
  [progress |-> UndoProgress(data) - 1,
   writeTimes |-> TRUE,
   stationTimes |-> UndoStationTimes(data),
   status |-> IF data.status = "finished" THEN "active" ELSE "keep",
   finishedAt |-> IF data.status = "finished" THEN Undefined ELSE Keep]

PingsAfterUndo(code, coll, a, data) ==
  IF code = "ok"
    THEN DeleteDocs(coll, DocsOfStation(coll, a, UndoStation(data)))
    ELSE coll

SplitsAfterUndo(code, coll, a, data) ==
  IF code = "ok"
    THEN DeleteDocs(coll, DocsOfStation(coll, a, UndoStation(data)))
    ELSE coll

AthleteAfterUndo(code, stored, data) ==
  IF code = "ok" THEN SetMerge(stored, UndoUpdate(data)) ELSE stored

UndoResponse(code, a, data) ==
  [BasicResponse("undo", a, code) EXCEPT
     !.stationId = IF code = "ok" THEN UndoStation(data) ELSE "",
     !.progress = IF code = "ok" THEN UndoProgress(data) - 1
                  ELSE IF code = "NothingToUndo" THEN UndoProgress(data)
                  ELSE Undefined]

\* --------------------------------------------------- reset / disqualify
\* Variant: finishedAt left out of the update.
ResetUpdateKeepsFinish ==
  [progress |-> 0, writeTimes |-> TRUE, stationTimes |-> EmptyTimes,
   status |-> "ready", finishedAt |-> Keep]

ResetUpdate ==
  [progress |-> 0, writeTimes |-> TRUE, stationTimes |-> EmptyTimes,
   status |-> "ready", finishedAt |-> Undefined]

\* The reset batch: every ping and split of the athlete deleted, the athlete
\* document set (merged) to the reset update.
FactsAfterReset(coll, a) == DeleteDocs(coll, DocsOf(coll, a))

AthleteAfterReset(stored) == SetMerge(stored, ResetUpdate)

\* Variant: progress cleared along with the status change.
DisqualifyUpdateClearing ==
  [progress |-> 0, writeTimes |-> FALSE, stationTimes |-> EmptyTimes,
   status |-> "dnf", finishedAt |-> Keep]

DisqualifyUpdate ==
  [progress |-> Keep, writeTimes |-> FALSE, stationTimes |-> EmptyTimes,
   status |-> "dnf", finishedAt |-> Keep]

\* ------------------------------------------------------------- requests
Procs == {1, 2}

\* The event document created with the station list of the model and started
\* at time 0.
ActiveEvent ==
  [exists |-> TRUE, status |-> "active", stationList |-> stationList,
   startsAt |-> 0, endsAt |-> Undefined]

\* A store: the athlete documents of the event and the two fact collections.
EmptyStore ==
  [athletes |-> [a \in AthleteIds |-> NoDoc], pings |-> EmptyBag, splits |-> EmptyBag]

\* pingsSnap and splitsSnap are the query snapshots of an undo or reset;
\* start is the store as it was before the request (bookkeeping).
IdleReq ==
  [pc |-> "idle", op |-> "none", athleteId |-> "", stationId |-> "",
   ev |-> ActiveEvent, data |-> NoDoc, now |-> Undefined, code |-> "",
   wrote |-> {}, overlap |-> FALSE,
   pingsSnap |-> EmptyBag, splitsSnap |-> EmptyBag, start |-> EmptyStore]

\* Spec follows one registered athlete through every request, and sends pings
\* and undos for the athlete id that has no document.
Subject == "a1"
Stranger == "ax"

\* The state after registration and POST /start at time 0.
Init ==
  /\ event = ActiveEvent
  /\ athletes = [a \in AthleteIds |-> IF a \in Registered THEN NewAthlete ELSE NoDoc]
  /\ pings = EmptyBag
  /\ splits = EmptyBag
  /\ clock = 0
  /\ last = BasicResponse("none", "", "ok")
  /\ reqs = [p \in Procs |-> IdleReq]

\* The wall clock read by serverTimestamp() moves forward between requests.
Tick ==
  /\ clock < MaxClock
  /\ clock' = clock + 1
  /\ UNCHANGED <<event, athletes, pings, splits, last, reqs>>

\* POST /api/events/:eventId/start; update() of a missing document rejects
\* and the catch answers 500.
StartEvent ==
  /\ event' = IF event.exists
                THEN [event EXCEPT !.status = "active", !.startsAt = clock]
                ELSE event
  /\ last' = BasicResponse("start", "", IF event.exists THEN "ok" ELSE "InternalError")
  /\ UNCHANGED <<athletes, pings, splits, clock, reqs>>

\* POST /api/events/:eventId/stop
StopEvent ==
  /\ event' = IF event.exists
                THEN [event EXCEPT !.status = "completed", !.endsAt = clock]
                ELSE event
  /\ last' = BasicResponse("stop", "", IF event.exists THEN "ok" ELSE "InternalError")
  /\ UNCHANGED <<athletes, pings, splits, clock, reqs>>

\* POST /api/events/:eventId/ping, the whole handler with no other request
\* in between.
RecordPing(a, stationId) ==
  LET data == athletes[a]
      code == PingCode(event, data, stationId)
  IN /\ pings' = PingsAfterPing(code, pings, a, stationId, clock)
     /\ splits' = SplitsAfterPing(code, splits, a, stationId, data, clock)
     /\ athletes' = [athletes EXCEPT ![a] = AthleteAfterPing(code, data, data, stationId, clock)]
     /\ last' = [PingResponse(code, a, stationId, data, clock) EXCEPT
                   !.repeat = /\ last.op = "ping" /\ last.code = "ok"
                              /\ last.athleteId = a /\ last.stationId = stationId,
                   !.prior = IF code = "ok"
                               THEN [athlete |-> data, pings |-> pings, splits |-> splits]
                               ELSE NoPrior]
     /\ UNCHANGED <<event, clock, reqs>>

\* POST /api/events/:eventId/athletes/:athleteId/undo
Undo(a) ==
  LET data == athletes[a]
      code == UndoCode(data)
  IN /\ pings' = PingsAfterUndo(code, pings, a, data)
     /\ splits' = SplitsAfterUndo(code, splits, a, data)
     /\ athletes' = [athletes EXCEPT ![a] = AthleteAfterUndo(code, data, data)]
     /\ last' = UndoResponse(code, a, data)
     /\ UNCHANGED <<event, clock, reqs>>

\* POST /api/events/:eventId/athletes/:athleteId/reset
Reset(a) ==
  /\ pings' = FactsAfterReset(pings, a)
  /\ splits' = FactsAfterReset(splits, a)
  /\ athletes' = [athletes EXCEPT ![a] = AthleteAfterReset(athletes[a])]
  /\ last' = [BasicResponse("reset", a, "ok") EXCEPT
                !.prior = [athlete |-> athletes[a], pings |-> pings, splits |-> splits]]
  /\ UNCHANGED <<event, clock, reqs>>

\* POST /api/events/:eventId/athletes/:athleteId/disqualify
Disqualify(a) ==
  /\ athletes' = [athletes EXCEPT ![a] = SetMerge(athletes[a], DisqualifyUpdate)]
  /\ last' = BasicResponse("disqualify", a, "ok")
  /\ UNCHANGED <<event, pings, splits, clock, reqs>>

Next ==
  \/ Tick
  \/ StopEvent
  \/ \E a \in {Subject, Stranger}, s \in StationInputs : RecordPing(a, s)
  \/ \E a \in {Subject, Stranger} : Undo(a)
  \/ Reset(Subject)
  \/ Disqualify(Subject)

Spec == Init /\ [][Next]_vars

\* SpecAdmin follows the athlete id that starts without a document through
\* the undo, reset and disqualify routes, and through pings.
NextAdmin ==
  \/ Tick
  \/ \E s \in StationInputs : RecordPing(Stranger, s)
  \/ Undo(Stranger)
  \/ Reset(Stranger)
  \/ Disqualify(Stranger)

SpecAdmin == Init /\ [][NextAdmin]_vars

\* ------------------------------------------------------ event lifecycle
\* No event document yet.
NoEvent ==
  [exists |-> FALSE, status |-> "undefined", stationList |-> <<>>,
   startsAt |-> Undefined, endsAt |-> Undefined]

\* `station-${idx}` for idx = 0, 1, ...
GeneratedIds == <<"station-0", "station-1", "station-2", "station-3", "station-4">>

\* The id property of a station object of the request body: a caller's own
\* id, an id spelled like a generated one, or "" for none.
IdInputs == {"", "cp", "station-1"}

\* req.body.stationList: the ids of up to NumStations station objects (the
\* empty list also stands for a body without stationList).
StationListInputs == UNION {[1..n -> IdInputs] : n \in 0..NumStations}

\* normalizedStations: id = s.id || `station-${idx}`
NormalizedStations(list) ==
  [i \in 1..Len(list) |-> IF list[i] # "" THEN list[i] ELSE GeneratedIds[i]]

\* POST /api/events: 400 without name or createdBy; else a new event document,
\* upcoming, with the normalized station list and null startsAt and endsAt.
\* The model follows the event of the first accepted call; a later call
\* creates another document and leaves this one alone.
CreateEvent(named, list) ==
  /\ event' = IF named /\ ~event.exists
                THEN [exists |-> TRUE, status |-> "upcoming",
                      stationList |-> NormalizedStations(list),
                      startsAt |-> Undefined, endsAt |-> Undefined]
                ELSE event
  /\ last' = BasicResponse("create", "", IF named THEN "ok" ELSE "ValidationError")
  /\ UNCHANGED <<athletes, pings, splits, clock, reqs>>

InitEvent ==
  /\ event = NoEvent
  /\ athletes = [a \in AthleteIds |-> NoDoc]
  /\ pings = EmptyBag
  /\ splits = EmptyBag
  /\ clock = 0
  /\ last = BasicResponse("none", "", "ok")
  /\ reqs = [p \in Procs |-> IdleReq]

NextEvent ==
  \/ Tick
  \/ \E named \in BOOLEAN, list \in StationListInputs : CreateEvent(named, list)
  \/ StartEvent
  \/ StopEvent

SpecEvent == InitEvent /\ [][NextEvent]_vars

\* ------------------------------------------------- interleaved requests
\* Each await of the ping handler is one step at the store; the code between
\* two awaits runs with that step.  A request is in flight from its first
\* store call to its response.
InFlight(r) == r.pc \notin {"idle", "done"}

\* A registered athlete with no ping yet, and no fact.
FreshStore == [athlete |-> NewAthlete, pings |-> EmptyBag, splits |-> EmptyBag]

\* The state after the Subject's first k stations were pinged in order at
\* time 0, computed with the handler's own operators.
RECURSIVE Played(_)
Played(k) ==
  IF k = 0
    THEN [athlete |-> NewAthlete, pings |-> EmptyBag, splits |-> EmptyBag]
    ELSE LET pre == Played(k - 1)
             s == stationList[k]
             code == PingCode(ActiveEvent, pre.athlete, s)
         IN [athlete |-> AthleteAfterPing(code, pre.athlete, pre.athlete, s, 0),
             pings |-> PingsAfterPing(code, pre.pings, Subject, s, 0),
             splits |-> SplitsAfterPing(code, pre.splits, Subject, s, pre.athlete, 0)]

\* The athlete document and the facts after the stations at indexes
\* 0..Len(times)-1 were pinged in order for athlete a, station i at time
\* times[i + 1], starting from st; computed with the handler's own operators.
RECURSIVE Replayed(_, _, _)
Replayed(st, a, times) ==
  IF times = <<>>
    THEN st
    ELSE LET k == Len(times)
             s == stationList[k]
         IN CHOOSE post \in
              {[athlete |-> AthleteAfterPing(PingCode(ActiveEvent, pre.athlete, s),
                                             pre.athlete, pre.athlete, s, times[k]),
                pings |-> PingsAfterPing(PingCode(ActiveEvent, pre.athlete, s),
                                         pre.pings, a, s, times[k]),
                splits |-> SplitsAfterPing(PingCode(ActiveEvent, pre.athlete, s),
                                           pre.splits, a, s, pre.athlete, times[k])] :
                 pre \in {Replayed(st, a, SubSeq(times, 1, k - 1))}} : TRUE

InitConc ==
  \E k \in 0..(NumStations - 1) :
    /\ event = ActiveEvent
    /\ athletes = [a \in AthleteIds |->
                     IF a = Subject THEN Played(k).athlete
                     ELSE IF a \in Registered THEN NewAthlete ELSE NoDoc]
    /\ pings = Played(k).pings
    /\ splits = Played(k).splits
    /\ clock = 0
    /\ last = BasicResponse("none", "", "ok")
    /\ reqs = [p \in Procs |-> IdleReq]

Finish(p, code) == [reqs EXCEPT ![p].pc = "done", ![p].code = code]

\* The request arrives; the body has athleteId and stationId.
BeginPing(p, a, stationId) ==
  /\ reqs[p].pc = "idle"
  /\ reqs' = [q \in Procs |->
                IF q = p
                  THEN [IdleReq EXCEPT !.pc = "readEvent", !.op = "ping",
                          !.athleteId = a, !.stationId = stationId,
                          !.start = reqs[p].start,
                          !.overlap = \E o \in Procs \ {p} : InFlight(reqs[o])]
                  ELSE [reqs[q] EXCEPT !.overlap = @ \/ InFlight(reqs[q])]]
  /\ UNCHANGED <<event, athletes, pings, splits, clock, last>>

\* await eventRef.get(), then the status and stationId checks.
PingReadEvent(p) ==
  LET r == reqs[p]
      code == PingCode(event, NewAthlete, r.stationId)
  IN /\ r.pc = "readEvent"
     /\ reqs' = IF code \in {"EventNotActive", "UnknownStation"}
                  THEN Finish(p, code)
                  ELSE [reqs EXCEPT ![p].pc = "readAthlete", ![p].ev = event]
     /\ UNCHANGED <<event, athletes, pings, splits, clock, last>>

\* await athleteRef.get(), then every check up to serverTimestamp().
PingReadAthlete(p) ==
  LET r == reqs[p]
      data == athletes[r.athleteId]
      code == PingCode(r.ev, data, r.stationId)
  IN /\ r.pc = "readAthlete"
     /\ reqs' = IF code # "ok"
                  THEN Finish(p, code)
                  ELSE [reqs EXCEPT ![p].pc = "addPing", ![p].data = data,
                          ![p].now = clock, ![p].code = "ok"]
     /\ UNCHANGED <<event, athletes, pings, splits, clock, last>>

\* await db.collection("pings").add(...)
PingAddPing(p) ==
  LET r == reqs[p]
  IN /\ r.pc = "addPing"
     /\ pings' = PingsAfterPing(r.code, pings, r.athleteId, r.stationId, r.now)
     /\ reqs' = [reqs EXCEPT
                   ![p].pc = IF PreviousTime(r.data) # Undefined
                               THEN "addSplit" ELSE "setAthlete",
                   ![p].wrote = @ \cup {"ping"}]
     /\ UNCHANGED <<event, athletes, splits, clock, last>>

\* await db.collection("splits").add(...)
PingAddSplit(p) ==
  LET r == reqs[p]
  IN /\ r.pc = "addSplit"
     /\ splits' = SplitsAfterPing(r.code, splits, r.athleteId, r.stationId, r.data, r.now)
     /\ reqs' = [reqs EXCEPT ![p].pc = "setAthlete", ![p].wrote = @ \cup {"split"}]
     /\ UNCHANGED <<event, athletes, pings, clock, last>>

\* await athleteRef.set(update, { merge: true }), then the response.
PingSetAthlete(p) ==
  LET r == reqs[p]
  IN /\ r.pc = "setAthlete"
     /\ athletes' = [athletes EXCEPT ![r.athleteId] =
                       AthleteAfterPing(r.code, @, r.data, r.stationId, r.now)]
     /\ reqs' = [reqs EXCEPT ![p].pc = "done", ![p].wrote = @ \cup {"athlete"}]
     /\ UNCHANGED <<event, pings, splits, clock, last>>

\* A store call rejects: the handler's catch answers 500 and nothing the
\* handler already wrote is taken back.
StoreFails(p) ==
  /\ InFlight(reqs[p])
  /\ reqs' = Finish(p, "InternalError")
  /\ UNCHANGED <<event, athletes, pings, splits, clock, last>>

NextConc ==
  \/ Tick
  \/ \E p \in Procs, s \in StationIds : BeginPing(p, Subject, s)
  \/ \E p \in Procs : PingReadEvent(p)
  \/ \E p \in Procs : PingReadAthlete(p)
  \/ \E p \in Procs : PingAddPing(p)
  \/ \E p \in Procs : PingAddSplit(p)
  \/ \E p \in Procs : PingSetAthlete(p)
  \/ \E p \in Procs : StoreFails(p)

SpecConc == InitConc /\ [][NextConc]_vars

\* SpecStop runs pings of the Subject, their store calls one step each,
\* beside POST /stop.
NextStop ==
  \/ Tick
  \/ StopEvent
  \/ \E p \in Procs, s \in StationIds : BeginPing(p, Subject, s)
  \/ \E p \in Procs : PingReadEvent(p)
  \/ \E p \in Procs : PingReadAthlete(p)
  \/ \E p \in Procs : PingAddPing(p)
  \/ \E p \in Procs : PingAddSplit(p)
  \/ \E p \in Procs : PingSetAthlete(p)

SpecStop == InitConc /\ [][NextStop]_vars

\* ------------------------------------ a ping beside another operation
\* SpecOps runs two requests with their store calls interleaved: a ping of
\* the Subject, and an undo, reset or disqualify of the Subject or of another
\* athlete, or a ping of that other athlete.  The clock does not move while
\* the two requests run.
Other == "a2"
AdminOps == {"undo", "reset", "disqualify"}

\* The documents of a query snapshot, as many of each as the query returned.
Snapshot(coll, docs) == [d \in docs |-> coll[d]]

InitOps ==
  \E k \in 0..NumStations, j \in 0..NumStations :
    LET mine == Played(k)
        theirs == Replayed(FreshStore, Other, [i \in 1..j |-> 0])
        st == [athletes |-> [a \in AthleteIds |->
                               IF a = Subject THEN mine.athlete
                               ELSE IF a = Other THEN theirs.athlete
                               ELSE IF a \in Registered THEN NewAthlete ELSE NoDoc],
               pings |-> mine.pings (+) theirs.pings,
               splits |-> mine.splits (+) theirs.splits]
    IN /\ event = ActiveEvent
       /\ athletes = st.athletes
       /\ pings = st.pings
       /\ splits = st.splits
       /\ clock = 0
       /\ last = BasicResponse("none", "", "ok")
       /\ reqs = [p \in Procs |-> [IdleReq EXCEPT !.start = st]]

\* An undo, reset or disqualify request arrives.
BeginAdmin(p, op, a) ==
  /\ reqs[p].pc = "idle"
  /\ reqs' = [q \in Procs |->
                IF q = p
                  THEN [IdleReq EXCEPT
                          !.pc = CASE op = "undo" -> "undoReadEvent"
                                   [] op = "reset" -> "resetQueryPings"
                                   [] OTHER -> "disqualifySet",
                          !.op = op, !.athleteId = a,
                          !.start = reqs[p].start,
                          !.overlap = \E o \in Procs \ {p} : InFlight(reqs[o])]
                  ELSE [reqs[q] EXCEPT !.overlap = @ \/ InFlight(reqs[q])]]
  /\ UNCHANGED <<event, athletes, pings, splits, clock, last>>

\* undo: await eventRef.get() (the event exists)
UndoReadEvent(p) ==
  /\ reqs[p].pc = "undoReadEvent"
  /\ reqs' = [reqs EXCEPT ![p].pc = "undoReadAthlete", ![p].ev = event]
  /\ UNCHANGED <<event, athletes, pings, splits, clock, last>>

\* undo: await athleteRef.get(), then the progress check.
UndoReadAthlete(p) ==
  LET r == reqs[p]
      data == athletes[r.athleteId]
      code == UndoCode(data)
  IN /\ r.pc = "undoReadAthlete"
     /\ reqs' = IF code # "ok"
                  THEN Finish(p, code)
                  ELSE [reqs EXCEPT ![p].pc = "undoQueryPings", ![p].data = data,
                          ![p].stationId = UndoStation(data), ![p].code = "ok"]
     /\ UNCHANGED <<event, athletes, pings, splits, clock, last>>

\* undo: await the pings query of the undone station.
UndoQueryPings(p) ==
  LET r == reqs[p]
  IN /\ r.pc = "undoQueryPings"
     /\ reqs' = [reqs EXCEPT ![p].pc = "undoQuerySplits",
                   ![p].pingsSnap =
                     Snapshot(pings, DocsOfStation(pings, r.athleteId, UndoStation(r.data)))]
     /\ UNCHANGED <<event, athletes, pings, splits, clock, last>>

\* undo: await the splits query of the undone station.
UndoQuerySplits(p) ==
  LET r == reqs[p]
  IN /\ r.pc = "undoQuerySplits"
     /\ reqs' = [reqs EXCEPT ![p].pc = "undoCommit",
                   ![p].splitsSnap =
                     Snapshot(splits, DocsOfStation(splits, r.athleteId, UndoStation(r.data)))]
     /\ UNCHANGED <<event, athletes, pings, splits, clock, last>>

\* undo: await batch.commit(): the snapshot documents deleted and the athlete
\* document merged, in one atomic write.
UndoCommit(p) ==
  LET r == reqs[p]
  IN /\ r.pc = "undoCommit"
     /\ pings' = pings (-) r.pingsSnap
     /\ splits' = splits (-) r.splitsSnap
     /\ athletes' = [athletes EXCEPT ![r.athleteId] = AthleteAfterUndo(r.code, @, r.data)]
     /\ reqs' = [reqs EXCEPT ![p].pc = "done", ![p].wrote = {"batch"}]
     /\ UNCHANGED <<event, clock, last>>

\* reset: await the pings query of the athlete.
ResetQueryPings(p) ==
  LET r == reqs[p]
  IN /\ r.pc = "resetQueryPings"
     /\ reqs' = [reqs EXCEPT ![p].pc = "resetQuerySplits",
                   ![p].pingsSnap = Snapshot(pings, DocsOf(pings, r.athleteId))]
     /\ UNCHANGED <<event, athletes, pings, splits, clock, last>>

\* reset: await the splits query of the athlete.
ResetQuerySplits(p) ==
  LET r == reqs[p]
  IN /\ r.pc = "resetQuerySplits"
     /\ reqs' = [reqs EXCEPT ![p].pc = "resetCommit",
                   ![p].splitsSnap = Snapshot(splits, DocsOf(splits, r.athleteId))]
     /\ UNCHANGED <<event, athletes, pings, splits, clock, last>>

\* reset: await batch.commit()
ResetCommit(p) ==
  LET r == reqs[p]
  IN /\ r.pc = "resetCommit"
     /\ pings' = pings (-) r.pingsSnap
     /\ splits' = splits (-) r.splitsSnap
     /\ athletes' = [athletes EXCEPT ![r.athleteId] = AthleteAfterReset(@)]
     /\ reqs' = [reqs EXCEPT ![p].pc = "done", ![p].code = "ok", ![p].wrote = {"batch"}]
     /\ UNCHANGED <<event, clock, last>>

\* disqualify: await athleteRef.set({status: "dnf"}, {merge: true})
DisqualifySet(p) ==
  LET r == reqs[p]
  IN /\ r.pc = "disqualifySet"
     /\ athletes' = [athletes EXCEPT ![r.athleteId] = SetMerge(@, DisqualifyUpdate)]
     /\ reqs' = [reqs EXCEPT ![p].pc = "done", ![p].code = "ok", ![p].wrote = {"athlete"}]
     /\ UNCHANGED <<event, pings, splits, clock, last>>

NextOps ==
  \/ \E s \in StationIds : BeginPing(1, Subject, s)
  \/ \E s \in StationIds : BeginPing(2, Other, s)
  \/ \E op \in AdminOps, a \in {Subject, Other} : BeginAdmin(2, op, a)
  \/ \E p \in Procs : PingReadEvent(p)
  \/ \E p \in Procs : PingReadAthlete(p)
  \/ \E p \in Procs : PingAddPing(p)
  \/ \E p \in Procs : PingAddSplit(p)
  \/ \E p \in Procs : PingSetAthlete(p)
  \/ UndoReadEvent(2)
  \/ UndoReadAthlete(2)
  \/ UndoQueryPings(2)
  \/ UndoQuerySplits(2)
  \/ UndoCommit(2)
  \/ ResetQueryPings(2)
  \/ ResetQuerySplits(2)
  \/ ResetCommit(2)
  \/ DisqualifySet(2)

SpecOps == InitOps /\ [][NextOps]_vars

\* ---------------------------------------------------------- leaderboard
\* Array.prototype.sort of the runtime (V8) on a short array: the leading run
\* is found (and reversed when strictly descending), then every later
\* element is placed by binary insertion.  cmp[<<x, y>>] is the comparator's
\* result for (x, y).
RECURSIVE RunLength(_, _, _, _)
RunLength(arr, cmp, descending, len) ==
  IF len = Len(arr)
    THEN len
    ELSE LET order == cmp[<<arr[len + 1], arr[len]>>]
         IN IF (descending /\ order >= 0) \/ (~descending /\ order < 0)
              THEN len
              ELSE RunLength(arr, cmp, descending, len + 1)

ReverseRange(arr, len) ==
  [i \in 1..Len(arr) |-> IF i <= len THEN arr[len + 1 - i] ELSE arr[i]]

RECURSIVE InsertionPoint(_, _, _, _, _)
InsertionPoint(arr, cmp, pivot, left, right) ==
  IF left >= right
    THEN left
    ELSE LET mid == left + ((right - left) \div 2)
         IN IF cmp[<<pivot, arr[mid]>>] < 0
              THEN InsertionPoint(arr, cmp, pivot, left, mid)
              ELSE InsertionPoint(arr, cmp, pivot, mid + 1, right)

RECURSIVE BinaryInsertionSort(_, _, _)
BinaryInsertionSort(arr, cmp, start) ==
  IF start > Len(arr)
    THEN arr
    ELSE LET at == InsertionPoint(arr, cmp, arr[start], 1, start)
         IN BinaryInsertionSort(
              [i \in 1..Len(arr) |->
                 IF i < at \/ i > start THEN arr[i]
                 ELSE IF i = at THEN arr[start] ELSE arr[i - 1]],
              cmp, start + 1)

ArraySort(arr, cmp) ==
  IF Len(arr) < 2
    THEN arr
    ELSE LET descending == cmp[<<arr[2], arr[1]>>] < 0
             run == RunLength(arr, cmp, descending, 2)
         IN BinaryInsertionSort(
              IF descending THEN ReverseRange(arr, run) ELSE arr, cmp, run + 1)

\* totals[athleteId]: the sum of (durationMs || 0) over the athlete's split
\* documents; ?? null when the athlete has none.
RECURSIVE SumDurations(_, _)
SumDurations(coll, docs) ==
  IF docs = {}
    THEN 0
    ELSE LET d == CHOOSE x \in docs : TRUE
         IN coll[d] * (IF d.durationMs = Null THEN 0 ELSE d.durationMs)
              + SumDurations(coll, docs \ {d})

TotalMs(coll, a) ==
  IF DocsOf(coll, a) = {} THEN Null ELSE SumDurations(coll, DocsOf(coll, a))

\* One leaderboard entry, before ranking.
BoardRow(docs, coll, a) ==
  [athleteId |-> a, progress |-> PingProgress(docs[a]),
   status |-> PingStatus(docs[a]), finishedAt |-> docs[a].finishedAt,
   totalMs |-> TotalMs(coll, a), rank |-> 0]

\* athletesSnap.forEach: one entry per athlete document, in document order.
RECURSIVE BoardRows(_, _, _)
BoardRows(docs, coll, n) ==
  IF n = 0
    THEN <<>>
    ELSE IF docs[AthleteOrder[n]].exists
      THEN Append(BoardRows(docs, coll, n - 1), BoardRow(docs, coll, AthleteOrder[n]))
      ELSE BoardRows(docs, coll, n - 1)

\* Variant: the comparator without its totalMs branch.
LeaderboardCompareProgressOnly(a, b) == b.progress - a.progress

\* The comparator of the leaderboard sort.
LeaderboardCompare(a, b) ==
  IF b.progress # a.progress THEN b.progress - a.progress
  ELSE IF a.totalMs # Null /\ b.totalMs # Null THEN a.totalMs - b.totalMs
  ELSE 0

\* Variant: rows with equal progress and equal totalMs share a rank.
RankRowsShared(sorted) ==
  [i \in 1..Len(sorted) |->
     [sorted[i] EXCEPT !.rank =
        1 + Cardinality({j \in 1..Len(sorted) :
                           LeaderboardCompare(sorted[j], sorted[i]) < 0})]]

\* athletes.map((a, idx) => ({ ...a, rank: idx + 1 }))
RankRows(sorted) ==
  [i \in 1..Len(sorted) |-> [sorted[i] EXCEPT !.rank = i]]

Leaderboard(docs, coll) ==
  LET rows == BoardRows(docs, coll, Len(AthleteOrder))
      items == {rows[i] : i \in 1..Len(rows)}
  IN RankRows(ArraySort(rows, [x \in items \X items |->
                                  LeaderboardCompare(x[1], x[2])]))

\* GET /api/events/:eventId/leaderboard
GetLeaderboard ==
  /\ last' = [BasicResponse("leaderboard", "", "ok") EXCEPT
                !.rows = Leaderboard(athletes, splits)]
  /\ UNCHANGED <<event, athletes, pings, splits, clock, reqs>>

\* SpecBoard reads the leaderboard of stores the ping handler leaves behind.
\* Each registered athlete has completed its first k stations in order,
\* station i at time i * d; and its ping of the next station may have met a
\* store failure after the Ping and Split writes, before the athlete write.
DrawnRun(a, k, d, failed) ==
  LET st == Replayed(FreshStore, a, [i \in 1..k |-> (i - 1) * d])
  IN IF failed /\ k < NumStations
       THEN [st EXCEPT
               !.pings = PingsAfterPing("ok", @, a, stationList[k + 1], k * d),
               !.splits = SplitsAfterPing("ok", @, a, stationList[k + 1],
                                          st.athlete, k * d)]
       ELSE st

\* The runs drawn: <<k, d, failed>>, each store once (the pace d matters only
\* from the second station on, a failed ping only when it wrote a Split).
Draws ==
  {x \in (0..NumStations) \X (0..MaxClock) \X BOOLEAN :
     /\ x[1] = 0 => (x[2] = 0 /\ ~x[3])
     /\ x[1] = NumStations => ~x[3]
     /\ (x[1] = 1 /\ ~x[3]) => x[2] = 0}

InitBoard ==
  \E draw \in [Registered -> Draws] :
    LET run == [a \in Registered |->
                  DrawnRun(a, draw[a][1], draw[a][2], draw[a][3])]
    IN /\ event = ActiveEvent
       /\ athletes = [a \in AthleteIds |->
                        IF a \in Registered THEN run[a].athlete ELSE NoDoc]
       /\ pings = run["a1"].pings (+) run["a2"].pings (+) run["a3"].pings
       /\ splits = run["a1"].splits (+) run["a2"].splits (+) run["a3"].splits
       /\ clock = NumStations * MaxClock
       /\ last = BasicResponse("none", "", "ok")
       /\ reqs = [p \in Procs |-> IdleReq]

NextBoard ==
  \/ GetLeaderboard
  \/ Disqualify(Stranger)

SpecBoard == InitBoard /\ [][NextBoard]_vars

\* SpecPair runs the requests of two registered athletes one after the
\* other, and reads the leaderboard.  Each ping names the station the handler
\* expects (a ping of another station is answered before any write).
NextPair ==
  \/ Tick
  \/ \E a \in {Subject, Other} :
       RecordPing(a, ExpectedStation(stationList, PingProgress(athletes[a])))
  \/ Undo(Subject)
  \/ Reset(Subject)
  \/ Disqualify(Subject)
  \/ GetLeaderboard

SpecPair == Init /\ [][NextPair]_vars

\* -------------------------------------------------------------- results
\* The sequences that list every element of a finite set once.
RECURSIVE Orders(_)
Orders(S) ==
  IF S = {}
    THEN {<<>>}
    ELSE UNION {{<<x>> \o rest : rest \in Orders(S \ {x})} : x \in S}

\* A query snapshot of the splits collection as forEach walks it.  The store
\* returns the documents in document-id order, and the ids are drawn at
\* random by add(), so any order can occur.  The handler's result depends
\* only on the order in which the athletes first appear and on the relative
\* order of each athlete's own documents, so the snapshots listed are the
\* ones grouped by athlete: every athlete order, every order of each
\* athlete's documents.
AthleteSnapshots(coll, a) ==
  LET copies == UNION {{<<d, n>> : n \in 1..coll[d]} : d \in DocsOf(coll, a)}
  IN {[i \in 1..Len(order) |-> order[i][1]] : order \in Orders(copies)}

RECURSIVE Grouped(_, _)
Grouped(coll, athleteOrder) ==
  IF athleteOrder = <<>>
    THEN {<<>>}
    ELSE {x \o y : x \in AthleteSnapshots(coll, Head(athleteOrder)),
                   y \in Grouped(coll, Tail(athleteOrder))}

SnapshotOrders(coll) ==
  UNION {Grouped(coll, ao) :
           ao \in Orders({a \in AthleteIds : DocsOf(coll, a) # {}})}

\* One step of splitsSnap.forEach: the athlete's entry is created on its
\* first document (totalMs 0, splits []), then totalMs += durationMs || 0 and
\* the document is pushed.  The entries are kept in insertion order, which is
\* the order Object.values(totals) returns them in.
AddToTotals(totals, s) ==
  LET dur == IF s.durationMs = Null THEN 0 ELSE s.durationMs
  IN IF \E i \in 1..Len(totals) : totals[i].athleteId = s.athleteId
       THEN [i \in 1..Len(totals) |->
               IF totals[i].athleteId = s.athleteId
                 THEN [totals[i] EXCEPT !.totalMs = @ + dur, !.splits = Append(@, s)]
                 ELSE totals[i]]
       ELSE Append(totals, [athleteId |-> s.athleteId, totalMs |-> dur,
                            splits |-> <<s>>, rank |-> 0])

RECURSIVE ResultTotals(_)
ResultTotals(snap) ==
  IF snap = <<>>
    THEN <<>>
    ELSE CHOOSE post \in
           {AddToTotals(pre, snap[Len(snap)]) :
              pre \in {ResultTotals(SubSeq(snap, 1, Len(snap) - 1))}} : TRUE

\* Variant: the comparator with its operands exchanged.
ResultsCompareDescending(a, b) == b.totalMs - a.totalMs

\* (a, b) => a.totalMs - b.totalMs
ResultsCompare(a, b) == a.totalMs - b.totalMs

\* results.map((r, idx) => ({ ...r, rank: idx + 1 }))
RankResults(sorted) ==
  [i \in 1..Len(sorted) |-> [sorted[i] EXCEPT !.rank = i]]

Results(snap) ==
  LET rows == ResultTotals(snap)
      items == {rows[i] : i \in 1..Len(rows)}
  IN RankResults(ArraySort(rows, [x \in items \X items |->
                                    ResultsCompare(x[1], x[2])]))

\* GET /api/events/:eventId/results
GetResults(snap) ==
  /\ last' = [BasicResponse("results", "", "ok") EXCEPT !.rows = Results(snap)]
  /\ UNCHANGED <<event, athletes, pings, splits, clock, reqs>>

\* SpecResults reads the results table of stores the ping handler leaves
\* behind, and of those stores after a reset or a disqualify of the Subject.
\* The Subject and one other athlete have each run as in SpecBoard; the third
\* registered athlete has not started or has finished at pace 1.
FewDraws == {<<0, 0, FALSE>>, <<NumStations, 1, FALSE>>}

InitResults ==
  \E mine \in Draws, theirs \in Draws, third \in FewDraws :
    LET draw == [a \in Registered |->
                   IF a = Subject THEN mine ELSE IF a = Other THEN theirs ELSE third]
        run == [a \in Registered |->
                  DrawnRun(a, draw[a][1], draw[a][2], draw[a][3])]
    IN /\ event = ActiveEvent
       /\ athletes = [a \in AthleteIds |->
                        IF a \in Registered THEN run[a].athlete ELSE NoDoc]
       /\ pings = run["a1"].pings (+) run["a2"].pings (+) run["a3"].pings
       /\ splits = run["a1"].splits (+) run["a2"].splits (+) run["a3"].splits
       /\ clock = NumStations * MaxClock
       /\ last = BasicResponse("none", "", "ok")
       /\ reqs = [p \in Procs |-> IdleReq]

\* A read changes nothing in the store, so a read that follows another read
\* of the same store is not taken.
NextResults ==
  \/ last.op # "results" /\ \E snap \in SnapshotOrders(splits) : GetResults(snap)
  \/ Reset(Subject)
  \/ Disqualify(Subject)

SpecResults == InitResults /\ [][NextResults]_vars

\* ------------------------------------------- checkpoint-index variants
\* Two earlier revisions of the engine name a checkpoint by its index: one
\* with the ping route only, one with the admin routes beside it.  Their
\* athlete documents hold progress (the index of the next checkpoint) and,
\* in legacy data, currentCheckpoint; checkpointTimes and lastUpdatedAt,
\* which these handlers never read, are left out.
\* A numeric field the document lacks (typeof is not "number"); -1 is a
\* value here.
Absent == -9

IndexNoDoc == [exists |-> FALSE, progress |-> Absent, currentCheckpoint |-> Absent]

\* checkpointIndex values of a request body; -1 stands for every value the
\* route answers with Invalid checkpointIndex.
IndexInputs == (-1)..NumStations

\* currentProgress: progress, else the legacy currentCheckpoint, else 0.
CurrentProgress(data) ==
  IF data.progress # Absent THEN data.progress
  ELSE IF data.currentCheckpoint # Absent THEN data.currentCheckpoint
  ELSE 0

\* where athleteId == a and checkpointIndex == c
PingsAt(coll, a, c) ==
  {d \in DOMAIN coll : d.athleteId = a /\ d.checkpointIndex = c}

\* The checks without the one for a checkpoint ahead of progress.
IndexPingCodeSkipping(ev, data, currentProgress, coll, a, c) ==
  IF c < 0 THEN "ValidationError"
  ELSE IF ev.status # "active" THEN "EventNotActive"
  ELSE IF ~data.exists THEN "AthleteNotFound"
  ELSE IF c < currentProgress THEN "BackwardPing"
  ELSE IF PingsAt(coll, a, c) # {} THEN "DuplicatePing"
  ELSE "ok"

\* The checks of the ping route up to its first write, in order.
IndexPingCode(ev, data, currentProgress, coll, a, c) ==
  IF c < 0 THEN "ValidationError"
  ELSE IF ev.status # "active" THEN "EventNotActive"
  ELSE IF ~data.exists THEN "AthleteNotFound"
  ELSE IF c < currentProgress THEN "BackwardPing"
  ELSE IF c > currentProgress THEN "SkippedCheckpoint"
  ELSE IF PingsAt(coll, a, c) # {} THEN "DuplicatePing"
  ELSE "ok"

IndexResponse(op, a, code, c, progress, splitMs) ==
  [op |-> op, athleteId |-> a, code |-> code, checkpointIndex |-> c,
   progress |-> progress, splitMs |-> splitMs]

\* The ping route with the progress it derived from the athlete document:
\* the Ping is added; when checkpointIndex > 0 and a Ping of the checkpoint
\* before exists, a Split from that Ping's timestamp is added; the athlete
\* document is merged with progress = currentProgress + 1.
CheckpointPing(a, c, currentProgress) ==
  LET data == athletes[a]
      code == IndexPingCode(event, data, currentProgress, pings, a, c)
      prevs == IF c > 0 THEN PingsAt(pings, a, c - 1) ELSE {}
  IN IF code # "ok"
       THEN /\ last' = IndexResponse("ping", a, code, c, Absent, Null)
            /\ UNCHANGED <<event, athletes, pings, splits, clock, reqs>>
       ELSE /\ pings' = AddDoc(pings, [athleteId |-> a, checkpointIndex |-> c,
                                       timestamp |-> clock])
            /\ IF prevs = {}
                 THEN /\ splits' = splits
                      /\ last' = IndexResponse("ping", a, "ok", c, currentProgress + 1, Null)
                 ELSE \E prev \in prevs :
                        /\ splits' = AddDoc(splits,
                             [athleteId |-> a, segmentIndex |-> c,
                              startTimestamp |-> prev.timestamp,
                              endTimestamp |-> clock,
                              durationMs |-> clock - prev.timestamp])
                        /\ last' = IndexResponse("ping", a, "ok", c, currentProgress + 1,
                                                 clock - prev.timestamp)
            /\ athletes' = [athletes EXCEPT ![a].exists = TRUE,
                                            ![a].progress = currentProgress + 1]
            /\ UNCHANGED <<event, clock, reqs>>

\* POST /api/events/:eventId/ping of the revision with the ping route only.
PingByIndex(a, c) == CheckpointPing(a, c, CurrentProgress(athletes[a]))

\* The athlete is registered with progress 0 or without a progress field.
InitIndex ==
  \E p \in {0, Absent} :
    /\ event = ActiveEvent
    /\ athletes = [a \in AthleteIds |->
                     IF a = Subject
                       THEN [exists |-> TRUE, progress |-> p, currentCheckpoint |-> Absent]
                       ELSE IndexNoDoc]
    /\ pings = EmptyBag
    /\ splits = EmptyBag
    /\ clock = 0
    /\ last = IndexResponse("none", "", "ok", Absent, Absent, Null)
    /\ reqs = [q \in Procs |-> IdleReq]

\* POST /api/events/:eventId/stop: update() of the existing event document.
StopIndexEvent ==
  /\ event' = [event EXCEPT !.status = "completed", !.endsAt = clock]
  /\ last' = IndexResponse("stop", "", "ok", Absent, Absent, Null)
  /\ UNCHANGED <<athletes, pings, splits, clock, reqs>>

NextIndex ==
  \/ Tick
  \/ StopIndexEvent
  \/ \E a \in {Subject, Stranger}, c \in IndexInputs : PingByIndex(a, c)

SpecIndex == InitIndex /\ [][NextIndex]_vars

\* The revision with admin routes: progress is read as
\* typeof progress === "number" ? progress : 0.
StoredProgress(data) == IF data.progress # Absent THEN data.progress ELSE 0

\* POST /api/events/:eventId/ping
PingByIndexAdmin(a, c) == CheckpointPing(a, c, StoredProgress(athletes[a]))

\* POST .../undo: 404 without the document, 400 at progress <= 0; else the
\* Pings and Splits of index progress - 1 are deleted and progress lowered,
\* in one batch.
UndoByIndex(a) ==
  LET data == athletes[a]
      progress == StoredProgress(data)
      undoIndex == progress - 1
  IN IF ~data.exists \/ progress <= 0
       THEN /\ last' = IndexResponse("undo", a,
                         IF ~data.exists THEN "AthleteNotFound" ELSE "NothingToUndo",
                         Absent, IF data.exists THEN progress ELSE Absent, Null)
            /\ UNCHANGED <<event, athletes, pings, splits, clock, reqs>>
       ELSE /\ pings' = DeleteDocs(pings, PingsAt(pings, a, undoIndex))
            /\ splits' = DeleteDocs(splits,
                           {d \in DOMAIN splits :
                              d.athleteId = a /\ d.segmentIndex = undoIndex})
            /\ athletes' = [athletes EXCEPT ![a].progress = undoIndex]
            /\ last' = IndexResponse("undo", a, "ok", undoIndex, undoIndex, Null)
            /\ UNCHANGED <<event, clock, reqs>>

\* progress values of a set-progress body
ProgressInputs == {-1, 0, 1}

\* POST .../set-progress with a numeric progress: the document is merged
\* (created when missing) with that progress.
SetProgress(a, n) ==
  /\ athletes' = [athletes EXCEPT ![a].exists = TRUE, ![a].progress = n]
  /\ last' = IndexResponse("set-progress", a, "ok", Absent, n, Null)
  /\ UNCHANGED <<event, pings, splits, clock, reqs>>

\* POST .../reset: every Ping and Split of the athlete deleted and the
\* document merged with progress: -1, in one batch.
ResetByIndex(a) ==
  /\ pings' = DeleteDocs(pings, DocsOf(pings, a))
  /\ splits' = DeleteDocs(splits, DocsOf(splits, a))
  /\ athletes' = [athletes EXCEPT ![a].exists = TRUE, ![a].progress = -1]
  /\ last' = IndexResponse("reset", a, "ok", Absent, Absent, Null)
  /\ UNCHANGED <<event, clock, reqs>>

NextIndexAdmin ==
  \/ Tick
  \/ \E c \in IndexInputs : PingByIndexAdmin(Subject, c)
  \/ UndoByIndex(Subject)
  \/ \E n \in ProgressInputs : SetProgress(Subject, n)
  \/ ResetByIndex(Subject)

SpecIndexAdmin == InitIndex /\ [][NextIndexAdmin]_vars

\* ================================================================ claims
Completed(doc) == {s \in StationIds : doc.stationTimes[s] # Undefined}
Prefix(n) == {stationList[i] : i \in 1..n}
Count(coll, docs) == IF docs = {} THEN 0 ELSE BagCardinality([d \in docs |-> coll[d]])
Quiescent == \A p \in Procs : ~InFlight(reqs[p])
Store == <<athletes, pings, splits>>

\* C1: every athlete's stationTimes holds exactly the ids of the stations at
\* indexes 0..progress-1 (no gap, no entry at an index >= progress).
ProgressIsCompletedPrefix ==
  \A a \in AthleteIds :
    athletes[a].exists =>
      Completed(athletes[a]) = Prefix(PingProgress(athletes[a]))

\* C2: two pings for the same athlete and station that ran concurrently never
\* both succeed.
AtMostOneConcurrentPingSucceeds ==
  \A p, q \in Procs :
    (/\ p # q
     /\ reqs[p].pc = "done" /\ reqs[q].pc = "done"
     /\ reqs[p].op = "ping" /\ reqs[q].op = "ping"
     /\ reqs[p].overlap /\ reqs[q].overlap
     /\ reqs[p].athleteId = reqs[q].athleteId
     /\ reqs[p].stationId = reqs[q].stationId)
    => ~(reqs[p].code = "ok" /\ reqs[q].code = "ok")

\* C3: an undo right after an accepted ping of the same athlete restores the
\* athlete's progress, stationTimes, status and finishedAt and the Ping and
\* Split facts to what they were before that ping.
UndoRestoresPing ==
  [][\A a \in AthleteIds :
       (last.op = "ping" /\ last.code = "ok" /\ last.athleteId = a /\ Undo(a))
       => /\ athletes'[a].progress = last.prior.athlete.progress
          /\ athletes'[a].stationTimes = last.prior.athlete.stationTimes
          /\ athletes'[a].status = last.prior.athlete.status
          /\ athletes'[a].finishedAt = last.prior.athlete.finishedAt
          /\ pings' = last.prior.pings
          /\ splits' = last.prior.splits]_vars

\* A ping of the station and athlete of the accepted ping just before it.
RepeatedPing(a, s) ==
  /\ last.op = "ping" /\ last.code = "ok"
  /\ last.athleteId = a /\ last.stationId = s
  /\ RecordPing(a, s)

OutOfOrderIsRejected ==
  [][\A a \in AthleteIds, s \in StationIds :
       (/\ RecordPing(a, s)
        /\ event.status = "active"
        /\ athletes[a].exists
        /\ athletes[a].status # "dnf"
        /\ athletes[a].progress < NumStations
        /\ stationIndexMap[s] # athletes[a].progress)
       => /\ last'.code = "OutOfOrderStation"
          /\ last'.expected = stationList[athletes[a].progress + 1]
          /\ last'.attempted = s
          /\ UNCHANGED Store]_vars

SkipAheadSeen ==
  /\ last.op = "ping" /\ last.code = "OutOfOrderStation"
  /\ stationIndexMap[last.attempted] > athletes[last.athleteId].progress
  /\ athletes[last.athleteId].status = "active"

\* C6: an accepted ping at time now of an athlete with progress p and status
\* st sets stationTimes[stationId] = now and progress = p + 1; sets status =
\* finished and finishedAt = now exactly when p + 1 = N, and otherwise makes a
\* ready athlete active and leaves an active one active; it returns the new
\* progress, the finished flag and the split, null when p = 0 and now minus
\* the completion time of station p - 1 otherwise.
AcceptedPingEffect ==
  [][\A a \in AthleteIds, s \in StationInputs :
       (RecordPing(a, s) /\ last'.code = "ok")
       => LET pre == athletes[a]
              post == athletes'[a]
              p == pre.progress
          IN /\ post.stationTimes[s] = clock
             /\ post.progress = p + 1
             /\ (post.status = "finished" /\ post.finishedAt = clock)
                  <=> (p + 1 = NumStations)
             /\ (p + 1 # NumStations) =>
                  /\ post.finishedAt = pre.finishedAt
                  /\ pre.status \in {"ready", "active"}
                  /\ post.status = "active"
             /\ last'.progress = p + 1
             /\ last'.finished = (p + 1 = NumStations)
             /\ last'.splitMs = IF p = 0 THEN Null
                                ELSE clock - pre.stationTimes[stationList[p]]]_vars

FinishingPingSeen ==
  /\ last.op = "ping" /\ last.code = "ok" /\ last.finished
  /\ last.splitMs > 0
  /\ athletes[last.athleteId].finishedAt = clock

\* The Split facts of athlete a mirror its completions: one for each station
\* at an index in 1..progress-1, with start and end the completion times of
\* the station before and of the station itself, and none elsewhere.
SplitLedger(a) ==
  \A i \in 0..(NumStations - 1) :
    LET docs == DocsOfStation(splits, a, stationList[i + 1])
        doc == athletes[a]
    IN IF 1 <= i /\ i <= PingProgress(doc) - 1
         THEN /\ Count(splits, docs) = 1
              /\ \A d \in docs :
                   /\ d.startTimestamp = doc.stationTimes[stationList[i]]
                   /\ d.endTimestamp = doc.stationTimes[stationList[i + 1]]
                   /\ d.durationMs = d.endTimestamp - d.startTimestamp
         ELSE docs = {}

NoStoreFailure == \A p \in Procs : reqs[p].code # "InternalError"

\* C7: whenever no request is in flight (and none met a store failure), every
\* athlete has exactly one Split for each completed station at an index in
\* 1..progress-1, none for index 0 or an index >= progress, each with the
\* start, end and duration of its leg.
SplitsMirrorCompletions ==
  (Quiescent /\ NoStoreFailure) => \A a \in AthleteIds : SplitLedger(a)

\* C8: for every athlete and station there is at most one Ping fact, and
\* there is one exactly when the station is in the athlete's stationTimes.
OnePingPerCompletion ==
  \A a \in AthleteIds, s \in StationIds :
    Count(pings, DocsOfStation(pings, a, s))
      = IF athletes[a].stationTimes[s] # Undefined THEN 1 ELSE 0

\* C9: a ping that ended in a store failure left either none of its writes
\* or all of them (Ping, Split when due, Athlete update); and once a retry of
\* it, started after the failure, is accepted, the store holds one Ping fact
\* for that athlete and station, as after a single accepted ping.
FailedPingWroteAllOrNothing ==
  \A p \in Procs :
    (reqs[p].op = "ping" /\ reqs[p].pc = "done" /\ reqs[p].code = "InternalError")
    => /\ \/ reqs[p].wrote = {}
          \/ {"ping", "athlete"} \subseteq reqs[p].wrote
       /\ \A q \in Procs \ {p} :
            (/\ reqs[q].op = "ping" /\ reqs[q].pc = "done" /\ reqs[q].code = "ok"
             /\ ~reqs[q].overlap
             /\ reqs[q].athleteId = reqs[p].athleteId
             /\ reqs[q].stationId = reqs[p].stationId)
            => Count(pings, DocsOfStation(pings, reqs[q].athleteId, reqs[q].stationId)) = 1

PreconditionFailures ==
  {"EventNotActive", "UnknownStation", "AthleteNotFound", "AthleteDisqualified",
   "OutOfOrderStation", "DuplicateCompletion", "NothingToUndo"}

\* C10: a request answered with a precondition failure leaves the athlete
\* records, the Ping facts and the Split facts as they were.
RejectionWritesNothing ==
  [][last'.code \in PreconditionFailures => UNCHANGED Store]_vars

RejectionSeen ==
  /\ last.op = "ping" /\ last.code = "DuplicateCompletion"
  /\ pings # EmptyBag

\* The failures a ping of station s for athlete a may report, by the first
\* precondition the state violates, in the order event, station, athlete,
\* dnf, expected station, duplicate.
FirstViolated(a, s) ==
  IF event.status # "active" THEN {"EventNotActive"}
  ELSE IF s \notin StationIds THEN {"UnknownStation"}
  ELSE IF ~athletes[a].exists THEN {"AthleteNotFound"}
  ELSE IF athletes[a].status = "dnf" THEN {"AthleteDisqualified"}
  ELSE IF \/ PingProgress(athletes[a]) >= NumStations
          \/ s # stationList[PingProgress(athletes[a]) + 1]
    THEN {"OutOfOrderStation", "AlreadyFinished"}
  ELSE IF athletes[a].stationTimes[s] # Undefined THEN {"DuplicateCompletion"}
  ELSE {"ok"}

\* C11: a ping that violates several preconditions reports the first violated
\* one in the order EventNotActive, UnknownStation, AthleteNotFound,
\* AthleteDisqualified, OutOfOrderStation / AlreadyFinished, DuplicateCompletion.
FirstViolatedIsReported ==
  [][\A a \in AthleteIds, s \in StationIds \cup {"zz"} :
       RecordPing(a, s) => last'.code \in FirstViolated(a, s)]_vars

\* C12: for an athlete with progress >= N (not dnf, active event) every ping
\* of a known station is rejected as AlreadyFinished and changes no state.
FinishedAthleteIsRejected ==
  [][\A a \in AthleteIds, s \in StationIds :
       (/\ RecordPing(a, s)
        /\ event.status = "active"
        /\ athletes[a].exists
        /\ athletes[a].status # "dnf"
        /\ PingProgress(athletes[a]) >= NumStations)
       => last'.code = "AlreadyFinished" /\ UNCHANGED Store]_vars

\* C13: Disqualify changes only the athlete's status, to dnf (progress,
\* stationTimes, finishedAt, every Ping and Split stay); and while the athlete
\* is dnf every ping of a known station in the active event is rejected with
\* AthleteDisqualified and leaves the store as it was.
DisqualifyOnlySetsStatus ==
  [][\A a \in AthleteIds :
       /\ Disqualify(a)
          => /\ athletes'[a].status = "dnf"
             /\ athletes'[a].progress = athletes[a].progress
             /\ athletes'[a].stationTimes = athletes[a].stationTimes
             /\ athletes'[a].finishedAt = athletes[a].finishedAt
             /\ \A b \in AthleteIds \ {a} : athletes'[b] = athletes[b]
             /\ UNCHANGED <<pings, splits>>
       /\ \A s \in StationIds :
            (/\ RecordPing(a, s)
             /\ event.status = "active"
             /\ athletes[a].status = "dnf")
            => last'.code = "AthleteDisqualified" /\ UNCHANGED Store]_vars

DisqualifiedPingSeen ==
  /\ last.op = "ping" /\ last.code = "AthleteDisqualified"
  /\ athletes[last.athleteId].status = "dnf"
  /\ athletes[last.athleteId].progress > 0
  /\ DocsOf(splits, last.athleteId) # {}

\* C14: Undo at progress 0 fails with NothingToUndo and changes nothing; at
\* progress p > 0 it sets progress to p - 1, removes the station at index
\* p - 1 from stationTimes, deletes that station's Ping and Split of the
\* athlete and, when the status was finished, sets it to active and clears
\* finishedAt.
UndoEffect ==
  [][\A a \in AthleteIds :
       (Undo(a) /\ athletes[a].exists)
       => LET pre == athletes[a]
              post == athletes'[a]
              p == PingProgress(pre)
          IN IF p = 0
               THEN last'.code = "NothingToUndo" /\ UNCHANGED Store
               ELSE /\ last'.code = "ok"
                    /\ post.progress = p - 1
                    /\ post.stationTimes =
                         [pre.stationTimes EXCEPT ![stationList[p]] = Undefined]
                    /\ pings' = DeleteDocs(pings, DocsOfStation(pings, a, stationList[p]))
                    /\ splits' = DeleteDocs(splits, DocsOfStation(splits, a, stationList[p]))
                    /\ IF pre.status = "finished"
                         THEN post.status = "active" /\ post.finishedAt = Undefined
                         ELSE post.status = pre.status
                              /\ post.finishedAt = pre.finishedAt]_vars

\* C15: Reset, from any state, leaves the athlete with progress 0, empty
\* stationTimes, status ready, no finishedAt and no Ping or Split; the Ping
\* and Split facts of the other athletes stay.
ResetClearsAthlete ==
  [][\A a \in AthleteIds :
       Reset(a)
       => /\ athletes'[a] = NewAthlete
          /\ DocsOf(pings', a) = {} /\ DocsOf(splits', a) = {}
          /\ \A b \in AthleteIds \ {a} :
               /\ athletes'[b] = athletes[b]
               /\ \A d \in DocsOf(pings, b) :
                    d \in DOMAIN pings' /\ pings'[d] = pings[d]
               /\ \A d \in DocsOf(splits, b) :
                    d \in DOMAIN splits' /\ splits'[d] = splits[d]
               /\ DocsOf(pings', b) = DocsOf(pings, b)
               /\ DocsOf(splits', b) = DocsOf(splits, b)]_vars

ResetOfFinishedSeen ==
  /\ last.op = "reset"
  /\ last.prior.athlete.status = "finished"
  /\ last.prior.athlete.finishedAt # Undefined
  /\ DocsOf(last.prior.splits, last.athleteId) # {}
  /\ athletes[last.athleteId] = NewAthlete
  /\ pings = EmptyBag

\* Clock readings of n pings in order: non-decreasing sequences of length n.
RECURSIVE TimeSeqs(_)
TimeSeqs(n) ==
  IF n = 0
    THEN {<<>>}
    ELSE {Append(x[1], x[2]) :
            x \in {y \in TimeSeqs(n - 1) \X (0..MaxClock) :
                     Len(y[1]) = 0 \/ y[2] >= y[1][Len(y[1])]}}

FactsOf(coll, a) == [d \in DocsOf(coll, a) |-> coll[d]]
OfAthlete(st, a) ==
  [athlete |-> st.athlete, pings |-> FactsOf(st.pings, a), splits |-> FactsOf(st.splits, a)]
CurrentStore(a) == [athlete |-> athletes[a], pings |-> pings, splits |-> splits]

AllTimeSeqs == UNION {TimeSeqs(n) : n \in 0..NumStations}

\* The uninterrupted runs: the pings applied to a fresh athlete.
FreshRuns ==
  [a \in Registered |->
     [times \in AllTimeSeqs |-> OfAthlete(Replayed(FreshStore, a, times), a)]]

\* C16: after a Reset of an athlete, from any reachable state, in-order
\* pings s0..sk at times t0..tk give the same athlete record and the same
\* Ping and Split facts of that athlete as the same pings at the same times
\* on a fresh athlete.
ResetThenReplayReproduces ==
  last.op = "reset" =>
    \A times \in AllTimeSeqs :
      OfAthlete(Replayed(CurrentStore(last.athleteId), last.athleteId, times),
                last.athleteId)
        = FreshRuns[last.athleteId][times]

ReplayAfterResetSeen ==
  /\ last.op = "reset"
  /\ Completed(last.prior.athlete) # Prefix(PingProgress(last.prior.athlete))
  /\ \E times \in AllTimeSeqs :
       LET st == Replayed(CurrentStore(last.athleteId), last.athleteId, times)
       IN /\ st.athlete.status = "finished"
          /\ Count(st.splits, DocsOf(st.splits, last.athleteId)) = NumStations - 1

\* The store after a whole handler ran alone on store st, by the handlers'
\* operators: a ping at time now, an undo, a reset, a disqualify.
PingOn(st, a, s, now) ==
  LET data == st.athletes[a]
      code == PingCode(ActiveEvent, data, s)
  IN [athletes |-> [st.athletes EXCEPT ![a] = AthleteAfterPing(code, data, data, s, now)],
      pings |-> PingsAfterPing(code, st.pings, a, s, now),
      splits |-> SplitsAfterPing(code, st.splits, a, s, data, now)]

UndoOn(st, a) ==
  LET data == st.athletes[a]
      code == UndoCode(data)
  IN [athletes |-> [st.athletes EXCEPT ![a] = AthleteAfterUndo(code, data, data)],
      pings |-> PingsAfterUndo(code, st.pings, a, data),
      splits |-> SplitsAfterUndo(code, st.splits, a, data)]

ResetOn(st, a) ==
  [athletes |-> [st.athletes EXCEPT ![a] = AthleteAfterReset(@)],
   pings |-> FactsAfterReset(st.pings, a),
   splits |-> FactsAfterReset(st.splits, a)]

DisqualifyOn(st, a) ==
  [st EXCEPT !.athletes[a] = SetMerge(@, DisqualifyUpdate)]

RequestOn(st, r) ==
  CASE r.op = "ping" -> PingOn(st, r.athleteId, r.stationId, clock)
    [] r.op = "undo" -> UndoOn(st, r.athleteId)
    [] r.op = "reset" -> ResetOn(st, r.athleteId)
    [] r.op = "disqualify" -> DisqualifyOn(st, r.athleteId)
    [] OTHER -> st

\* The two serial orders of the two requests, from the store they started on.
SerialOrders ==
  {RequestOn(RequestOn(reqs[1].start, reqs[1]), reqs[2]),
   RequestOn(RequestOn(reqs[1].start, reqs[2]), reqs[1])}

WholeStore == [athletes |-> athletes, pings |-> pings, splits |-> splits]
BothDone == \A p \in Procs : reqs[p].pc = "done"

\* C17: when a ping ran concurrently with an undo, a reset or a disqualify of
\* the same athlete, the final athlete records and Ping and Split facts are
\* those of one of the two serial orders of the two operations.
SameAthleteOpsLinearize ==
  (/\ BothDone
   /\ reqs[1].athleteId = reqs[2].athleteId
   /\ reqs[2].op \in AdminOps)
  => WholeStore \in SerialOrders

\* C18: a step of a request for athlete A changes no record, Ping or Split of
\* another athlete B; and when the two requests were for different athletes,
\* whatever their interleaving, the final store is the one of running them
\* one after the other (in either order).
OtherAthletesUntouched ==
  [][/\ \A b \in AthleteIds :
          (\/ athletes'[b] # athletes[b]
           \/ FactsOf(pings', b) # FactsOf(pings, b)
           \/ FactsOf(splits', b) # FactsOf(splits, b))
          => \E p \in Procs :
               /\ reqs'[p] # reqs[p] /\ InFlight(reqs[p])
               /\ reqs[p].athleteId = b
     /\ (BothDone /\ reqs[1].athleteId # reqs[2].athleteId)'
          => (SerialOrders = {WholeStore})']_vars

DifferentAthletesOverlapSeen ==
  /\ BothDone
  /\ reqs[1].overlap /\ reqs[2].overlap
  /\ reqs[1].code = "ok" /\ reqs[2].code = "ok"
  /\ reqs[2].op \in {"undo", "reset"} /\ reqs[2].athleteId = Other
  /\ reqs[2].pingsSnap # EmptyBag
  /\ WholeStore # reqs[1].start

RowOf(rows, a) == CHOOSE i \in 1..Len(rows) : rows[i].athleteId = a
DocumentIds == {a \in AthleteIds : athletes[a].exists}

\* The sum of an athlete's Split durations, null without a Split.
SplitTotal(a) ==
  IF DocsOf(splits, a) = {} THEN Null
  ELSE LET docs == DocsOf(splits, a)
           Sum[S \in SUBSET docs] ==
             IF S = {} THEN 0
             ELSE LET d == CHOOSE x \in S : TRUE
                  IN splits[d] * d.durationMs + Sum[S \ {d}]
       IN Sum[docs]

\* C19: in the leaderboard of any reachable store, totalMs is the sum of the
\* athlete's Split durations (null without a Split); an athlete with more
\* progress has the smaller rank; and of two athletes with equal progress and
\* both a totalMs, the one with the smaller totalMs has the smaller rank.
LeaderboardOrder ==
  last.op = "leaderboard" =>
    \A i, j \in 1..Len(last.rows) :
      LET A == last.rows[i]
          B == last.rows[j]
      IN /\ A.totalMs = SplitTotal(A.athleteId)
         /\ A.progress > B.progress => A.rank < B.rank
         /\ (/\ A.progress = B.progress
             /\ A.totalMs # Null /\ B.totalMs # Null
             /\ A.totalMs < B.totalMs) => A.rank < B.rank

\* C20: the leaderboard has every athlete of the event exactly once, those
\* with progress 0 and those with status dnf included, and the ranks are
\* exactly 1..K, each used once, also when sort keys tie.
LeaderboardListsEveryone ==
  last.op = "leaderboard" =>
    /\ {last.rows[i].athleteId : i \in 1..Len(last.rows)} = DocumentIds
    /\ Len(last.rows) = Cardinality(DocumentIds)
    /\ {last.rows[i].rank : i \in 1..Len(last.rows)} = 1..Cardinality(DocumentIds)

TiedLeaderboardSeen ==
  /\ last.op = "leaderboard"
  /\ Len(last.rows) = 4
  /\ \E i, j, k \in 1..Len(last.rows) :
       /\ i # j
       /\ LeaderboardCompare(last.rows[i], last.rows[j]) = 0
       /\ last.rows[i].progress = 0
       /\ last.rows[k].status = "dnf"
       /\ last.rows[k].progress = 0
       /\ last.rows[j].totalMs = Null

SplitHolders == {a \in AthleteIds : DocsOf(splits, a) # {}}

\* C21: the results table has exactly the athletes with at least one Split,
\* each once, with totalMs the sum of the athlete's Split durations, in
\* ascending totalMs with ranks 1..K; an athlete without a Split is absent.
ResultsListSplitHolders ==
  last.op = "results" =>
    /\ {last.rows[i].athleteId : i \in 1..Len(last.rows)} = SplitHolders
    /\ Len(last.rows) = Cardinality(SplitHolders)
    /\ \A i \in 1..Len(last.rows) :
         /\ last.rows[i].totalMs = SplitTotal(last.rows[i].athleteId)
         /\ last.rows[i].rank = i
         /\ \A j \in 1..Len(last.rows) :
              last.rows[i].totalMs < last.rows[j].totalMs => i < j

ResultsWithAbsenteeSeen ==
  /\ last.op = "results"
  /\ Len(last.rows) = 2
  /\ last.rows[1].totalMs < last.rows[2].totalMs
  /\ Len(last.rows[1].splits) = NumStations - 1
  /\ athletes[Subject].exists /\ athletes[Subject].progress <= 1
  /\ \A i \in 1..Len(last.rows) : last.rows[i].athleteId # Subject

\* C22: every athlete in the results table has finished (progress N, status
\* finished); no active athlete and no dnf athlete with a partial record is
\* in it.
ResultsOnlyFinished ==
  last.op = "results" =>
    \A i \in 1..Len(last.rows) :
      /\ athletes[last.rows[i].athleteId].status = "finished"
      /\ athletes[last.rows[i].athleteId].progress = NumStations

\* C23: under createEvent, startEvent and stopEvent an event's status moves
\* only upcoming -> active -> completed: a completed event stays completed,
\* an upcoming event does not become completed, and startsAt / endsAt are
\* written only by the step that enters active / completed.
EventLifecycleIsOneWay ==
  [][event.exists =>
       /\ event.status = "completed" => event'.status = "completed"
       /\ event.status = "upcoming" => event'.status \in {"upcoming", "active"}
       /\ event.status = "active" => event'.status \in {"active", "completed"}
       /\ event'.startsAt # event.startsAt
            => (event.status = "upcoming" /\ event'.status = "active")
       /\ event'.endsAt # event.endsAt
            => (event.status = "active" /\ event'.status = "completed")]_vars

\* C24: for every athlete, status ready implies progress 0 and no
\* stationTimes entry, status active implies 0 < progress < N, and status
\* finished implies progress = N.
StatusMatchesProgress ==
  \A a \in AthleteIds :
    /\ athletes[a].status = "ready"
         => (athletes[a].progress = 0 /\ Completed(athletes[a]) = {})
    /\ athletes[a].status = "active"
         => (0 < athletes[a].progress /\ athletes[a].progress < NumStations)
    /\ athletes[a].status = "finished" => athletes[a].progress = NumStations

\* C25: an athlete has finishedAt only when its progress is N; and after an
\* Undo, whatever the status was (dnf included), finishedAt is absent.
FinishedAtOnlyAtEnd ==
  /\ \A a \in AthleteIds :
       athletes[a].finishedAt # Undefined => athletes[a].progress = NumStations
  /\ (last.op = "undo" /\ last.code = "ok")
       => athletes[last.athleteId].finishedAt = Undefined

\* C26: after a successful Undo of station s, from any progress in 1..N, s is
\* the expected station again and the next ping of s (athlete not dnf, event
\* active) is accepted, not rejected as DuplicateCompletion.
UndoneStationCanBePingedAgain ==
  [][\A a \in AthleteIds :
       (/\ last.op = "undo" /\ last.code = "ok" /\ last.athleteId = a
        /\ event.status = "active"
        /\ athletes[a].status # "dnf"
        /\ RecordPing(a, last.stationId))
       => /\ ExpectedStation(stationList, athletes[a].progress) = last.stationId
          /\ last'.code = "ok"
          /\ athletes'[a].progress = athletes[a].progress + 1]_vars

\* C27: dnf is terminal: once an athlete's status is dnf, no step of a ping,
\* undo, reset or disqualify, in any order or interleaving, makes it anything
\* else.
DnfIsTerminal ==
  [][\A a \in AthleteIds :
       athletes[a].status = "dnf" => athletes'[a].status = "dnf"]_vars

\* C28: a status becomes dnf only by Disqualify, never by a ping, and only
\* from a status other than finished.
DnfOnlyFromUnfinished ==
  [][\A a \in AthleteIds :
       (athletes[a].status # "dnf" /\ athletes'[a].status = "dnf")
       => /\ last'.op = "disqualify" /\ last'.athleteId = a
          /\ athletes[a].status # "finished"]_vars

\* C29: Undo, Reset and Disqualify of an athlete id without a document fail
\* with AthleteNotFound and create no athlete document.
AdminOpsCreateNoAthlete ==
  [][\A a \in AthleteIds :
       (~athletes[a].exists /\ (Undo(a) \/ Reset(a) \/ Disqualify(a)))
       => /\ last'.code = "AthleteNotFound"
          /\ {b \in AthleteIds : athletes'[b].exists} = DocumentIds
          /\ UNCHANGED Store]_vars

\* C30: every event createEvent produced has pairwise distinct station ids,
\* for every input list (own ids, generated ids, both), so the id-to-index
\* lookup of the ping handler gives each index of the list its own id.
StationIdsAreDistinct ==
  event.exists =>
    /\ \A i, j \in 1..Len(event.stationList) :
         i # j => event.stationList[i] # event.stationList[j]
    /\ \A i \in 1..Len(event.stationList) :
         StationIndexMap(event.stationList)[event.stationList[i]] = i - 1

\* C31: one request at a time, an athlete with progress p >= 2 has a Split
\* total equal to the completion time of station p - 1 minus that of station
\* 0, and an athlete with progress <= 1 has no Split (a null total).
TotalIsElapsedTime ==
  \A a \in AthleteIds :
    athletes[a].exists =>
      IF PingProgress(athletes[a]) >= 2
        THEN SplitTotal(a) = athletes[a].stationTimes[stationList[PingProgress(athletes[a])]]
                               - athletes[a].stationTimes[stationList[1]]
        ELSE SplitTotal(a) = Null /\ DocsOf(splits, a) = {}

ElapsedTimeSeen ==
  /\ athletes[Subject].progress = NumStations
  /\ SplitTotal(Subject) = MaxClock
  /\ \E d \in DocsOf(splits, Subject) : d.durationMs = 1

EqualProgressTotalsAgree ==
  /\ \A a, b \in DocumentIds :
       PingProgress(athletes[a]) = PingProgress(athletes[b])
       => (SplitTotal(a) = Null <=> SplitTotal(b) = Null)
  /\ last.op = "leaderboard" =>
       \A i, j \in 1..Len(last.rows) :
         (i < j /\ last.rows[i].progress = last.rows[j].progress)
         => /\ last.rows[i].totalMs = Null <=> last.rows[j].totalMs = Null
            /\ last.rows[i].totalMs <= last.rows[j].totalMs

SlowerFirstRegisteredSeen ==
  /\ last.op = "leaderboard"
  /\ last.rows[1].athleteId = Other /\ last.rows[2].athleteId = Subject
  /\ last.rows[1].progress = last.rows[2].progress
  /\ last.rows[1].totalMs # Null
  /\ last.rows[1].totalMs < last.rows[2].totalMs

\* C34: in the results table each athlete's split list is in ascending
\* station index, whatever order the store returns the Split documents in.
SplitListsFollowStations ==
  last.op = "results" =>
    \A r \in 1..Len(last.rows) :
      \A i, j \in 1..Len(last.rows[r].splits) :
        i < j => last.rows[r].splits[i].stationIndex
                   < last.rows[r].splits[j].stationIndex

\* C35: no ping is accepted outside the active period, also when a ping runs
\* beside stopEvent: every Ping of a completed event has a timestamp not
\* later than endsAt, and no athlete's progress changes once stopEvent has
\* committed.
NoPingAfterStop ==
  [][/\ event.status = "completed"
          => \A a \in AthleteIds : athletes'[a].progress = athletes[a].progress
     /\ event'.status = "completed"
          => \A d \in DOMAIN pings' : d.timestamp <= event'.endsAt]_vars

PingCount(a) == Count(pings, DocsOf(pings, a))

\* C37: in the ping-only checkpoint-index revision a ping (valid index,
\* active event, existing athlete) is accepted exactly when checkpointIndex
\* equals the athlete's progress and no Ping of that athlete and index
\* exists; an accepted ping sets progress to checkpointIndex + 1; and with
\* one ping at a time the athlete's Pings are those of the indexes
\* 0..progress-1, one each.
IndexPingsAreInOrder ==
  [][/\ \A a \in AthleteIds, c \in IndexInputs :
          (/\ PingByIndex(a, c)
           /\ c >= 0 /\ event.status = "active" /\ athletes[a].exists)
          => /\ last'.code = "ok"
                  <=> (c = CurrentProgress(athletes[a]) /\ PingsAt(pings, a, c) = {})
             /\ last'.code = "ok"
                  => (athletes'[a].progress = c + 1 /\ PingCount(a)' = PingCount(a) + 1)
             /\ last'.code # "ok" => UNCHANGED Store
     /\ \A a \in AthleteIds :
          athletes'[a].exists =>
            /\ PingCount(a)' = CurrentProgress(athletes'[a])
            /\ \A c \in 0..(CurrentProgress(athletes'[a]) - 1) :
                 Count(pings', PingsAt(pings', a, c)) = 1]_vars

IndexRunSeen ==
  /\ last.op = "ping" /\ last.code = "ok"
  /\ last.checkpointIndex = NumStations - 1
  /\ last.splitMs = 1
  /\ athletes[Subject].progress = NumStations
  /\ PingCount(Subject) = NumStations

\* C36: in the checkpoint-index revision with admin routes, after Reset of
\* an athlete a ping of checkpointIndex 0 is accepted.
ResetThenFirstCheckpoint ==
  [][\A a \in AthleteIds :
       (/\ last.op = "reset" /\ last.athleteId = a
        /\ event.status = "active"
        /\ PingByIndexAdmin(a, 0))
       => last'.code = "ok" /\ athletes'[a].progress = 1]_vars

====
